---- MODULE Spec2Model ----
(***************************************************************************)
(* Transaction webhook service: idempotent ingestion (receive_webhook),   *)
(* dispatch of the deferred work (queue_task: Celery, or a local thread   *)
(* when enqueueing raises) and the deferred processor on both channels    *)
(* (process_transaction with its retries, _process_transaction_in_thread).*)
(*                                                                         *)
(* The database is a table of rows; every round trip to it (a SELECT, a    *)
(* COMMIT) is one atomic step, and what a thread does between two round    *)
(* trips without touching anything shared belongs to the step before.      *)
(* A session keeps the row as its query read it, and its commit writes    *)
(* the columns that were assigned another value than the one read.         *)
(* One server process serves one request at a time (handler); several      *)
(* processes on one database serve as many at once (pool).                 *)
(* The database, the broker and the thread library are the environment:    *)
(* the store goes down and comes back, enqueueing succeeds or raises, a    *)
(* thread starts or does not.                                              *)
(***************************************************************************)
EXTENDS Integers, Sequences, FiniteSets

VARIABLES
    table,      \* the transactions table: a sequence of rows, in insertion order
    jobs,       \* the deferred work so far: one entry per thread started or message found queued
    responses,  \* the HTTP responses given so far, one per request, in order
    handler,    \* the request receive_webhook is serving, and where it is in the handler
    pool,       \* the same for each of several server processes, one request each
    now,        \* the clock read by func.now() and datetime.utcnow()
    storeUp,    \* whether the database answers
    schema,     \* whether the transactions table exists in the database
    lastGet     \* the response of the GET served in the last step, NoGet otherwise

vars == <<table, jobs, responses, handler, pool, now, storeUp, schema, lastGet>>

----------------------------------------------------------------------------
(* Bounds of the model *)

\* the number of inputs a behaviour holds: webhook requests, and queue messages
\* that come from elsewhere
MaxRequests == 2

\* the last instant of the clock
MaxTime == 1

\* the server processes of the deployment with several
PoolSize == 3

\* the number of webhook requests a behaviour of that deployment holds
MaxPoolRequests == 3

----------------------------------------------------------------------------
(* Program constants *)

\* process_transaction is declared with max_retries=3
max_retries == 3

\* self.retry(exc=e, countdown=60): the seconds before a retry runs
countdown == 60

\* processed_at is nullable: the value of a column that holds NULL
NULL == -1

HTTP_200_OK == 200
HTTP_202_ACCEPTED == 202
HTTP_404_NOT_FOUND == 404
HTTP_422_UNPROCESSABLE == 422
HTTP_500_INTERNAL_SERVER_ERROR == 500

PROCESSING == "PROCESSING"
PROCESSED == "PROCESSED"
FAILED == "FAILED"

TransactionStatus == {PROCESSING, PROCESSED, FAILED}

----------------------------------------------------------------------------
(* Requests *)

TxnIds == {"txn_1", "txn_2"}
Accounts == {"", "acc_user"}
Merchants == {"acc_merchant"}
Amounts == {-5, 0, 100}
Currencies == {"US", "USD", "USDT"}

\* the JSON bodies a client sends: for every id, the bodies with each source
\* account and a good amount and currency, and the bodies of one account with
\* one field that is not good
Payloads ==
    [transaction_id : TxnIds, source_account : Accounts,
     destination_account : Merchants, amount : {100}, currency : {"USD"}]
    \cup [transaction_id : TxnIds, source_account : {"acc_user"},
          destination_account : Merchants, amount : Amounts, currency : {"USD"}]
    \cup [transaction_id : TxnIds, source_account : {"acc_user"},
          destination_account : Merchants, amount : {100}, currency : Currencies]

\* mutant: amount is declared without gt=0
WebhookRequestAnyAmount(p) == Len(p.currency) >= 3 /\ Len(p.currency) <= 3

\* WebhookRequest: amount has gt=0, currency has min_length=3 and max_length=3;
\* the other fields are required strings with no constraint
WebhookRequest(p) == p.amount > 0 /\ Len(p.currency) >= 3 /\ Len(p.currency) <= 3

----------------------------------------------------------------------------
(* The store *)

\* mutant: the row is stamped with processed_at when it is created
TransactionStamped(webhook_data, t) ==
    [transaction_id |-> webhook_data.transaction_id,
     source_account |-> webhook_data.source_account,
     destination_account |-> webhook_data.destination_account,
     amount |-> webhook_data.amount,
     currency |-> webhook_data.currency,
     status |-> PROCESSING,
     created_at |-> t,
     processed_at |-> t]

\* Transaction(...): the row receive_webhook builds; created_at is the server
\* default func.now(), processed_at is left NULL
Transaction(webhook_data, t) ==
    [transaction_id |-> webhook_data.transaction_id,
     source_account |-> webhook_data.source_account,
     destination_account |-> webhook_data.destination_account,
     amount |-> webhook_data.amount,
     currency |-> webhook_data.currency,
     status |-> PROCESSING,
     created_at |-> t,
     processed_at |-> NULL]

\* the rows of db with this transaction_id
RowsOf(db, id) == {i \in DOMAIN db : db[i].transaction_id = id}

\* db.query(Transaction).filter(transaction_id == id).first(): the index of the
\* first such row, 0 when there is none
First(db, id) ==
    IF RowsOf(db, id) = {} THEN 0
    ELSE CHOOSE i \in RowsOf(db, id) : \A k \in RowsOf(db, id) : i <= k

\* mutant: transaction_id is not declared the primary key, no insert is refused
IntegrityErrorNever(db, id) == FALSE

\* transaction_id is the primary key: inserting a second row with it raises
\* IntegrityError
IntegrityError(db, id) == RowsOf(db, id) # {}

----------------------------------------------------------------------------
(* Responses *)

NoId == ""

\* WebhookResponse(message="Webhook received", transaction_id=...)
Accepted(id) ==
    [status_code |-> HTTP_202_ACCEPTED, message |-> "Webhook received",
     transaction_id |-> id]

\* WebhookResponse(message="Webhook received (duplicate)", transaction_id=...)
Duplicate(id) ==
    [status_code |-> HTTP_202_ACCEPTED, message |-> "Webhook received (duplicate)",
     transaction_id |-> id]

\* HTTPException(500, detail="Failed to process webhook"): no transaction_id
ServerError ==
    [status_code |-> HTTP_500_INTERNAL_SERVER_ERROR,
     message |-> "Failed to process webhook", transaction_id |-> NoId]

\* the framework's answer to a body WebhookRequest rejects
ValidationError ==
    [status_code |-> HTTP_422_UNPROCESSABLE, message |-> "validation error",
     transaction_id |-> NoId]

----------------------------------------------------------------------------
(* Deferred work *)

\* the status a session holds of the row of its job: none, no row is loaded
NotLoaded == ""

\* threading.Thread(target=queue_task).start(): the thread exists and has not
\* yet called process_transaction.delay.  attempts counts the executions of the
\* processor, retries is the task's request.retries, countdown the delay the
\* last retry asked for, opened and closed count the database sessions the
\* processor has made with SessionLocal() and closed with close(); loaded is
\* the status of the row as the open session read it, stamp
\* the datetime.utcnow() the processor has assigned to processed_at; stray is
\* set on a message that no request of this service put on the queue.
NewJob(id) ==
    [transaction_id |-> id, channel |-> "none", phase |-> "spawned",
     attempts |-> 0, retries |-> 0, countdown |-> 0, opened |-> 0, closed |-> 0,
     loaded |-> NotLoaded, stamp |-> NULL, stray |-> FALSE]

\* mutant: the status is written without processed_at
MarkNoTimestamp(db, i, seen, st, t) ==
    [db EXCEPT ![i].status = IF st # seen THEN st ELSE @]

\* mutant: the update sets created_at as well
MarkTouchesCreatedAt(db, i, seen, st, t) ==
    [db EXCEPT ![i].status = IF st # seen THEN st ELSE @,
               ![i].processed_at = t,
               ![i].created_at = t]

\* the UPDATE both processors commit for the row their session read with
\* status seen, after transaction.status = st and transaction.processed_at =
\* t.  The session writes the columns whose assigned value differs from the
\* value it read and leaves the others as they are in the table by then:
\* status when st is not the status read; processed_at always, since the
\* naive datetime.utcnow() assigned never equals what the session read from
\* the DateTime(timezone=True) column, NULL or a datetime with a time zone.
Mark(db, i, seen, st, t) ==
    [db EXCEPT ![i].status = IF st # seen THEN st ELSE @,
               ![i].processed_at = t]

\* the query has found the row: the session holds it as read, and the
\* processor assigns its status and processed_at = datetime.utcnow() before
\* it goes to the commit
Load(job, db, t) ==
    LET row == db[First(db, job.transaction_id)] IN
    [job EXCEPT !.loaded = row.status, !.stamp = t]

\* db = SessionLocal()
OpenSession(job) == [job EXCEPT !.opened = @ + 1]

\* finally: db.close(); what the session read and what was assigned on it go
\* with it
CloseSession(job) ==
    [job EXCEPT !.closed = @ + 1, !.loaded = NotLoaded, !.stamp = NULL]

\* mutant: SessionLocal() is called before time.sleep
SleepHoldingSession(job) ==
    OpenSession([job EXCEPT !.phase = "sleeping", !.attempts = @ + 1])

\* the processor is entered: time.sleep(25) is its first statement, before any
\* session
Sleep(job) == [job EXCEPT !.phase = "sleeping", !.attempts = @ + 1]

\* queue_task: process_transaction.delay(txn_id) leaves one message on the
\* queue; when it raises, the thread runs _process_transaction_in_thread.
\* The result is the work there is afterwards.
queue_task(job, raises) ==
    IF raises
    THEN << Sleep([job EXCEPT !.channel = "thread"]) >>
    ELSE << [job EXCEPT !.channel = "celery", !.phase = "queued"] >>

\* the jobs after the thread of job j has left out
Dispatched(js, j, out) == [js EXCEPT ![j] = Head(out)] \o Tail(out)

\* db.query(Transaction).filter(...).first(), the first round trip of a
\* session: it raises when the store does not answer, else it finds the row
\* or None
Query(db, id, up) ==
    IF ~up THEN "raised"
    ELSE IF First(db, id) # 0 THEN "found" ELSE "none"

----------------------------------------------------------------------------
(* receive_webhook.  The handler runs in three steps: up to db.commit(), then
   threading.Thread(...).start(), then the return of the response.  An
   exception of any of them goes to the except clauses, which answer at once.
   pc tells where the handler is after the step: "done" when it has answered,
   "committed" after the commit, "started" after the start of the thread. *)

\* the handler has not answered yet
NoResponse == [status_code |-> 0, message |-> "", transaction_id |-> NoId]

\* mutant: the thread is started before db.add and db.commit
receive_webhook_schedule_first(webhook_data, db, js, up, t) ==
    LET id == webhook_data.transaction_id IN
    IF ~up
    THEN [table |-> db, jobs |-> Append(js, NewJob(id)),
          response |-> ServerError, pc |-> "done"]
    ELSE IF IntegrityError(db, id)
    THEN [table |-> db, jobs |-> Append(js, NewJob(id)),
          response |-> Duplicate(id), pc |-> "done"]
    ELSE [table |-> Append(db, Transaction(webhook_data, t)),
          jobs |-> Append(js, NewJob(id)),
          response |-> NoResponse, pc |-> "started"]

\* mutant: db.merge instead of db.add, a duplicate overwrites the stored row
receive_webhook_merge(webhook_data, db, js, up, t) ==
    LET id == webhook_data.transaction_id IN
    IF ~up
    THEN [table |-> db, jobs |-> js, response |-> ServerError, pc |-> "done"]
    ELSE IF IntegrityError(db, id)
    THEN [table |-> [db EXCEPT ![First(db, id)] = Transaction(webhook_data, t)],
          jobs |-> js, response |-> Duplicate(id), pc |-> "done"]
    ELSE [table |-> Append(db, Transaction(webhook_data, t)), jobs |-> js,
          response |-> NoResponse, pc |-> "committed"]

\* mutant: no except IntegrityError clause: a duplicate falls into the general
\* except clause and is answered 500
receive_webhook_dup_is_error(webhook_data, db, js, up, t) ==
    LET id == webhook_data.transaction_id IN
    IF ~up \/ IntegrityError(db, id)
    THEN [table |-> db, jobs |-> js, response |-> ServerError, pc |-> "done"]
    ELSE [table |-> Append(db, Transaction(webhook_data, t)), jobs |-> js,
          response |-> NoResponse, pc |-> "committed"]

\* mutant: the handler swallows a store error: it answers and schedules anyway
receive_webhook_swallow(webhook_data, db, js, up, t) ==
    LET id == webhook_data.transaction_id IN
    IF ~up
    THEN [table |-> db, jobs |-> Append(js, NewJob(id)),
          response |-> Accepted(id), pc |-> "done"]
    ELSE IF IntegrityError(db, id)
    THEN [table |-> db, jobs |-> js, response |-> Duplicate(id), pc |-> "done"]
    ELSE [table |-> Append(db, Transaction(webhook_data, t)), jobs |-> js,
          response |-> NoResponse, pc |-> "committed"]

\* the handler up to db.commit(): the new table, the jobs, the response if it
\* has answered, and where it is
receive_webhook(webhook_data, db, js, up, t) ==
    LET id == webhook_data.transaction_id IN
    IF ~up
    THEN \* except Exception: rollback, HTTPException(500)
         [table |-> db, jobs |-> js, response |-> ServerError, pc |-> "done"]
    ELSE IF IntegrityError(db, id)
    THEN \* except IntegrityError: rollback, the duplicate acknowledgment
         [table |-> db, jobs |-> js, response |-> Duplicate(id), pc |-> "done"]
    ELSE \* the row is committed and the handler goes on
         [table |-> Append(db, Transaction(webhook_data, t)), jobs |-> js,
          response |-> NoResponse, pc |-> "committed"]

\* threading.Thread(target=queue_task, daemon=True).start(): the thread runs,
\* or start() raises and the general except clause answers 500; its
\* db.rollback() finds nothing to undo, the row is committed
start_thread(id, js, starts) ==
    IF starts
    THEN [jobs |-> Append(js, NewJob(id)), response |-> NoResponse,
          pc |-> "started"]
    ELSE [jobs |-> js, response |-> ServerError, pc |-> "done"]

----------------------------------------------------------------------------
(* receive_webhook in a deployment of several server processes on one
   database.  db.commit() is two round trips, the INSERT it flushes and the
   COMMIT.  Between them the row is in the database, uncommitted and seen by
   no query, and the primary key makes the INSERT of another transaction
   with the same transaction_id wait until that transaction has ended.  pc
   is "waiting" while the INSERT waits and "inserted" when it is answered. *)

\* the INSERT of row, flushed by db.commit(): it raises when the store does
\* not answer (except Exception: 500), it waits while it is blocked by the
\* uncommitted row of another transaction, it raises IntegrityError when the
\* transaction_id is stored (the duplicate acknowledgment), else the row is
\* inserted and not yet committed
insert(row, db, blocked, up) ==
    IF ~up
    THEN [response |-> ServerError, pc |-> "done"]
    ELSE IF blocked
    THEN [response |-> NoResponse, pc |-> "waiting"]
    ELSE IF IntegrityError(db, row.transaction_id)
    THEN [response |-> Duplicate(row.transaction_id), pc |-> "done"]
    ELSE [response |-> NoResponse, pc |-> "inserted"]

\* the COMMIT of db.commit() after its INSERT: the row is stored and the
\* handler goes on, or the COMMIT raises, the transaction is rolled back
\* and the general except clause answers 500
commit(row, db, up) ==
    IF up
    THEN [table |-> Append(db, row), response |-> NoResponse, pc |-> "committed"]
    ELSE [table |-> db, response |-> ServerError, pc |-> "done"]

----------------------------------------------------------------------------
(* process_transaction, the Celery task.  After its sleep the task makes a
   session, sends the SELECT, and commits the update; each of the two round
   trips is a step of its own, and the session is held between them. *)

\* the commit of the try block, for the row the query found and the
\* assignments of PROCESSED and processed_at made then: the UPDATE is written,
\* or the commit raises.  The result is the new table and how the block ended.
UpdateProcessed(db, job, up) ==
    IF ~up THEN [table |-> db, ended |-> "raised"]
    ELSE [table |-> Mark(db, First(db, job.transaction_id), job.loaded,
                         PROCESSED, job.stamp),
          ended |-> "succeeded"]

\* mutant: the except block only logs before it retries
UpdateFailedLogsOnly(db, job, up) == db

\* the commit of the except block, for the row its query found and the
\* assignments of FAILED and processed_at made then: the UPDATE is written;
\* when the commit raises the error is logged
UpdateFailed(db, job, up) ==
    IF up
    THEN Mark(db, First(db, job.transaction_id), job.loaded, FAILED, job.stamp)
    ELSE db

\* mutant: the task is declared with max_retries=None
RetryUnbounded(job, raises) ==
    IF raises
    THEN [job EXCEPT !.phase = "rejected"]
    ELSE [job EXCEPT !.phase = "queued", !.retries = job.retries + 1,
                     !.countdown = countdown]

\* self.retry(exc=e, countdown=60): once request.retries has reached
\* max_retries the exception is raised and the task is over; before that the
\* task is sent again, to run after countdown seconds, and when sending
\* raises the task is rejected and not sent
Retry(job, raises) ==
    IF job.retries >= max_retries
    THEN [job EXCEPT !.phase = "abandoned"]
    ELSE IF raises
    THEN [job EXCEPT !.phase = "rejected"]
    ELSE [job EXCEPT !.phase = "queued", !.retries = job.retries + 1,
                     !.countdown = countdown]

----------------------------------------------------------------------------
(* _process_transaction_in_thread, the fallback *)

\* mutant: the fallback forgets db.commit()
ThreadUpdateNoCommit(db, job, up) ==
    IF ~up THEN [table |-> db, ended |-> "raised"]
    ELSE [table |-> db, ended |-> "succeeded"]

\* the commit of the fallback, for the row the query found and the
\* assignments made then; an exception goes to the except clause of the same
\* try
ThreadUpdate(db, job, up) ==
    IF ~up THEN [table |-> db, ended |-> "raised"]
    ELSE [table |-> Mark(db, First(db, job.transaction_id), job.loaded,
                         PROCESSED, job.stamp),
          ended |-> "succeeded"]

\* the except clause: db.rollback() and logger.error, no write
ThreadExcept(db, job, up) == db

----------------------------------------------------------------------------
(* get_transaction *)

NoGet == [request |-> NoId, status_code |-> 0, body |-> << >>]

\* mutant: the check of the query's result is missing, an empty list is returned
get_transaction_no_404(transaction_id, db, up) ==
    IF ~up
    THEN [request |-> transaction_id,
          status_code |-> HTTP_500_INTERNAL_SERVER_ERROR, body |-> << >>]
    ELSE [request |-> transaction_id, status_code |-> HTTP_200_OK,
          body |-> IF First(db, transaction_id) = 0 THEN << >>
                   ELSE << db[First(db, transaction_id)] >>]

\* the query raises when the store does not answer (global_exception_handler
\* answers 500); no row: HTTPException 404; else the list of the row found
get_transaction(transaction_id, db, up) ==
    IF ~up
    THEN [request |-> transaction_id,
          status_code |-> HTTP_500_INTERNAL_SERVER_ERROR, body |-> << >>]
    ELSE IF First(db, transaction_id) = 0
    THEN [request |-> transaction_id, status_code |-> HTTP_404_NOT_FOUND,
          body |-> << >>]
    ELSE [request |-> transaction_id, status_code |-> HTTP_200_OK,
          body |-> << db[First(db, transaction_id)] >>]

----------------------------------------------------------------------------
(* The state machine *)

\* no request is inside receive_webhook; row is the row a handler of the
\* pool has sent with its INSERT and not yet committed
Idle == [transaction_id |-> NoId, pc |-> "idle", row |-> << >>]

\* the server processes of the pool
Handlers == 1..PoolSize

\* a row an earlier run of the service left in the table, in the status that
\* run left it in: Base.metadata.create_all keeps the table and its rows, and
\* the threads of that run ended with its process
Kept(p, st) ==
    [Transaction(p, 0) EXCEPT !.status = st,
                              !.processed_at = IF st = PROCESSING THEN NULL ELSE 0]

\* the rows kept, of the valid bodies of one account
KeptRows ==
    {Kept(p, st) : p \in {q \in Payloads : /\ WebhookRequest(q)
                                           /\ q.source_account = "acc_user"},
                   st \in TransactionStatus}

\* the tables a start of the service can find: none or an empty one, or rows
\* of earlier runs
KeptTables ==
    {<< >>}
    \cup {<< r >> : r \in KeptRows}
    \cup {t \in {<< r, s >> : r \in KeptRows, s \in KeptRows} :
              t[1].transaction_id # t[2].transaction_id}

\* the service has been imported: create_all has run once, inside a try whose
\* except clause only logs.  With the store up the table exists afterwards,
\* empty or as earlier runs left it; with the store down the service starts
\* all the same, and the table exists only if an earlier run made it.
Init ==
    /\ storeUp \in BOOLEAN
    /\ schema \in BOOLEAN
    /\ table \in KeptTables
    /\ storeUp => schema
    /\ table # << >> => schema
    /\ jobs = << >>
    /\ responses = << >>
    /\ handler = Idle
    /\ pool = [h \in Handlers |-> Idle]
    /\ now = 0
    /\ lastGet = NoGet

\* a statement sent to the database succeeds: the database answers and the
\* transactions table exists
Available == storeUp /\ schema

\* the messages on the queue that no request of this service put there
Strays == Cardinality({j \in DOMAIN jobs : jobs[j].stray})

\* the handlers of the pool that are serving a request
Busy == {h \in Handlers : pool[h] # Idle}

\* what has come into the system: the requests answered, those being
\* served, and those messages
Inputs ==
    Len(responses) + (IF handler = Idle THEN 0 ELSE 1) + Cardinality(Busy)
    + Strays

\* a request whose body WebhookRequest rejects never reaches the handler
RejectInvalid(p) ==
    /\ ~WebhookRequest(p)
    /\ handler = Idle
    /\ Inputs < MaxRequests
    /\ responses' = Append(responses,
           [request |-> p.transaction_id, response |-> ValidationError])
    /\ UNCHANGED <<table, jobs, handler, now, storeUp, schema>>
    /\ lastGet' = NoGet
    /\ UNCHANGED pool

\* POST /v1/webhooks/transactions with a valid body: the handler up to
\* db.commit().  The handler is a coroutine that never awaits, so the event
\* loop serves no other request until it has returned.
ReceiveWebhook(p) ==
    /\ WebhookRequest(p)
    /\ handler = Idle
    /\ Inputs < MaxRequests
    /\ LET r == receive_webhook(p, table, jobs, Available, now) IN
        /\ table' = r.table
        /\ jobs' = r.jobs
        /\ IF r.pc = "done"
           THEN /\ responses' = Append(responses,
                       [request |-> p.transaction_id, response |-> r.response])
                /\ handler' = Idle
           ELSE /\ responses' = responses
                /\ handler' = [Idle EXCEPT !.transaction_id = p.transaction_id,
                                             !.pc = r.pc]
    /\ UNCHANGED <<now, storeUp, schema>>
    /\ lastGet' = NoGet
    /\ UNCHANGED pool

\* the handler after the commit: threading.Thread(...).start() starts the
\* thread
ThreadStarts ==
    /\ handler.pc = "committed"
    /\ LET r == start_thread(handler.transaction_id, jobs, TRUE) IN
        /\ jobs' = r.jobs
        /\ handler' = [handler EXCEPT !.pc = r.pc]
    /\ UNCHANGED <<table, responses, now, storeUp, schema>>
    /\ lastGet' = NoGet
    /\ UNCHANGED pool

\* the handler after the commit: Thread.start() raises (RuntimeError: can't
\* start new thread) and the handler answers from its general except clause
ThreadStartRaises ==
    /\ handler.pc = "committed"
    /\ LET r == start_thread(handler.transaction_id, jobs, FALSE) IN
        /\ jobs' = r.jobs
        /\ responses' = Append(responses,
               [request |-> handler.transaction_id, response |-> r.response])
        /\ handler' = Idle
    /\ UNCHANGED <<table, now, storeUp, schema>>
    /\ lastGet' = NoGet
    /\ UNCHANGED pool

\* the handler returns WebhookResponse(message="Webhook received", ...); the
\* thread it started has been running meanwhile
Respond ==
    /\ handler.pc = "started"
    /\ responses' = Append(responses,
           [request |-> handler.transaction_id,
            response |-> Accepted(handler.transaction_id)])
    /\ handler' = Idle
    /\ UNCHANGED <<table, jobs, now, storeUp, schema>>
    /\ lastGet' = NoGet
    /\ UNCHANGED pool

\* queue_task, in its thread: process_transaction.delay(txn_id) puts the message
\* on the queue
QueueTaskEnqueued(j) ==
    /\ jobs[j].phase = "spawned"
    /\ jobs' = Dispatched(jobs, j, queue_task(jobs[j], FALSE))
    /\ UNCHANGED <<table, responses, handler, now, storeUp, schema>>
    /\ lastGet' = NoGet
    /\ UNCHANGED pool

\* queue_task, in its thread: delay raises and the thread goes on into
\* _process_transaction_in_thread, which sleeps first
QueueTaskFallback(j) ==
    /\ jobs[j].phase = "spawned"
    /\ jobs' = Dispatched(jobs, j, queue_task(jobs[j], TRUE))
    /\ UNCHANGED <<table, responses, handler, now, storeUp, schema>>
    /\ lastGet' = NoGet
    /\ UNCHANGED pool

\* a worker takes the message (the first delivery or a retry): the task starts
\* and sleeps
WorkerStart(j) ==
    /\ jobs[j].channel = "celery"
    /\ jobs[j].phase = "queued"
    /\ jobs' = [jobs EXCEPT ![j] = Sleep(jobs[j])]
    /\ UNCHANGED <<table, responses, handler, now, storeUp, schema>>
    /\ lastGet' = NoGet
    /\ UNCHANGED pool

\* the sleep of either processor ends and db = SessionLocal() makes the
\* session; nothing is sent to the database yet
ProcessorOpens(j) ==
    /\ jobs[j].phase = "sleeping"
    /\ jobs' = [jobs EXCEPT ![j] = [OpenSession(jobs[j]) EXCEPT !.phase = "opened"]]
    /\ UNCHANGED <<table, responses, handler, now, storeUp, schema>>
    /\ lastGet' = NoGet
    /\ UNCHANGED pool

\* process_transaction: the query of the try block.  A row found: the task
\* goes on to the commit, holding the session.  No row: the error is logged
\* and the session closed.  The query raises: rollback, close, and the except
\* block makes its own session.
ProcessTransactionQuery(j) ==
    /\ jobs[j].channel = "celery"
    /\ jobs[j].phase = "opened"
    /\ LET found == Query(table, jobs[j].transaction_id, Available) IN
       jobs' = [jobs EXCEPT ![j] =
                  IF found = "found"
                  THEN [Load(jobs[j], table, now) EXCEPT !.phase = "selected"]
                  ELSE IF found = "none"
                  THEN [CloseSession(jobs[j]) EXCEPT !.phase = "not_found"]
                  ELSE [OpenSession(CloseSession(jobs[j])) EXCEPT
                           !.phase = "except"]]
    /\ UNCHANGED <<table, responses, handler, now, storeUp, schema>>
    /\ lastGet' = NoGet
    /\ UNCHANGED pool

\* process_transaction: the commit of the try block, then the finally clause;
\* when the commit raises, the except block makes its own session
ProcessTransactionUpdate(j) ==
    /\ jobs[j].channel = "celery"
    /\ jobs[j].phase = "selected"
    /\ LET r == UpdateProcessed(table, jobs[j], Available) IN
        /\ table' = r.table
        /\ jobs' = [jobs EXCEPT ![j] =
                      IF r.ended = "raised"
                      THEN [OpenSession(CloseSession(jobs[j])) EXCEPT
                               !.phase = "except"]
                      ELSE [CloseSession(jobs[j]) EXCEPT !.phase = r.ended]]
    /\ UNCHANGED <<responses, handler, now, storeUp, schema>>
    /\ lastGet' = NoGet
    /\ UNCHANGED pool

\* process_transaction's except block: the query of fallback_db.  A row found:
\* the block goes on to its commit.  No row, or the query raises (the error is
\* logged): the session is closed and self.retry is next.
ProcessTransactionExceptQuery(j) ==
    /\ jobs[j].channel = "celery"
    /\ jobs[j].phase = "except"
    /\ LET found == Query(table, jobs[j].transaction_id, Available) IN
       jobs' = [jobs EXCEPT ![j] =
                  IF found = "found"
                  THEN [Load(jobs[j], table, now) EXCEPT !.phase = "marking"]
                  ELSE [CloseSession(jobs[j]) EXCEPT !.phase = "retrying"]]
    /\ UNCHANGED <<table, responses, handler, now, storeUp, schema>>
    /\ lastGet' = NoGet
    /\ UNCHANGED pool

\* process_transaction's except block: the commit of the FAILED write, then
\* the finally clause; self.retry is next
ProcessTransactionExcept(j) ==
    /\ jobs[j].channel = "celery"
    /\ jobs[j].phase = "marking"
    /\ table' = UpdateFailed(table, jobs[j], Available)
    /\ jobs' = [jobs EXCEPT ![j] =
                  [CloseSession(jobs[j]) EXCEPT !.phase = "retrying"]]
    /\ UNCHANGED <<responses, handler, now, storeUp, schema>>
    /\ lastGet' = NoGet
    /\ UNCHANGED pool

\* raise self.retry(exc=e, countdown=60), with the broker taking the message
\* or not
ProcessTransactionRetry(j) ==
    /\ jobs[j].channel = "celery"
    /\ jobs[j].phase = "retrying"
    /\ \E raises \in BOOLEAN : jobs' = [jobs EXCEPT ![j] = Retry(jobs[j], raises)]
    /\ UNCHANGED <<table, responses, handler, now, storeUp, schema>>
    /\ lastGet' = NoGet
    /\ UNCHANGED pool

\* _process_transaction_in_thread: the query of the inner try block.  A row
\* found: the thread goes on to the commit, holding the session.  No row: the
\* error is logged and the session closed.  The query raises: the except
\* clause is next, the session still open.
ProcessInThreadQuery(j) ==
    /\ jobs[j].channel = "thread"
    /\ jobs[j].phase = "opened"
    /\ LET found == Query(table, jobs[j].transaction_id, Available) IN
       jobs' = [jobs EXCEPT ![j] =
                  IF found = "found"
                  THEN [Load(jobs[j], table, now) EXCEPT !.phase = "selected"]
                  ELSE IF found = "none"
                  THEN [CloseSession(jobs[j]) EXCEPT !.phase = "not_found"]
                  ELSE [jobs[j] EXCEPT !.phase = "except"]]
    /\ UNCHANGED <<table, responses, handler, now, storeUp, schema>>
    /\ lastGet' = NoGet
    /\ UNCHANGED pool

\* _process_transaction_in_thread: the commit, then the finally clause; when
\* the commit raises the except clause is next, the session still open
ProcessInThread(j) ==
    /\ jobs[j].channel = "thread"
    /\ jobs[j].phase = "selected"
    /\ LET r == ThreadUpdate(table, jobs[j], Available) IN
        /\ table' = r.table
        /\ jobs' = [jobs EXCEPT ![j] =
                      IF r.ended = "raised"
                      THEN [jobs[j] EXCEPT !.phase = "except"]
                      ELSE [CloseSession(jobs[j]) EXCEPT !.phase = r.ended]]
    /\ UNCHANGED <<responses, handler, now, storeUp, schema>>
    /\ lastGet' = NoGet
    /\ UNCHANGED pool

\* _process_transaction_in_thread's except clause: rollback and a log line,
\* then the finally clause; nothing is written and nothing is raised
ProcessInThreadExcept(j) ==
    /\ jobs[j].channel = "thread"
    /\ jobs[j].phase = "except"
    /\ table' = ThreadExcept(table, jobs[j], Available)
    /\ jobs' = [jobs EXCEPT ![j] = [CloseSession(jobs[j]) EXCEPT !.phase = "failed"]]
    /\ UNCHANGED <<responses, handler, now, storeUp, schema>>
    /\ lastGet' = NoGet
    /\ UNCHANGED pool

\* time passes
Tick ==
    /\ now < MaxTime
    /\ now' = now + 1
    /\ UNCHANGED <<table, jobs, responses, handler, storeUp, schema>>
    /\ lastGet' = NoGet
    /\ UNCHANGED pool

\* the database stops answering
StoreFails ==
    /\ storeUp
    /\ storeUp' = FALSE
    /\ UNCHANGED <<table, jobs, responses, handler, now, schema>>
    /\ lastGet' = NoGet
    /\ UNCHANGED pool

\* the database answers again; the service does not run create_all again
StoreRecovers ==
    /\ ~storeUp
    /\ storeUp' = TRUE
    /\ UNCHANGED <<table, jobs, responses, handler, now, schema>>
    /\ lastGet' = NoGet
    /\ UNCHANGED pool

JobStep(j) ==
    \/ QueueTaskEnqueued(j)
    \/ QueueTaskFallback(j)
    \/ WorkerStart(j)
    \/ ProcessorOpens(j)
    \/ ProcessTransactionQuery(j)
    \/ ProcessTransactionUpdate(j)
    \/ ProcessTransactionExceptQuery(j)
    \/ ProcessTransactionExcept(j)
    \/ ProcessTransactionRetry(j)
    \/ ProcessInThreadQuery(j)
    \/ ProcessInThread(j)
    \/ ProcessInThreadExcept(j)

\* the steps of the ingestion and of the deferred work; no GET is served in them
Next ==
    \/ \E p \in Payloads : RejectInvalid(p)
    \/ \E p \in Payloads : ReceiveWebhook(p)
    \/ ThreadStarts
    \/ ThreadStartRaises
    \/ Respond
    \/ \E j \in DOMAIN jobs : JobStep(j)
    \/ Tick
    \/ StoreFails
    \/ StoreRecovers

Spec == Init /\ [][Next]_vars

\* the store is as the first start of the service finds it
FreshStart == table = << >>

\* the service has been imported for the first time
FreshInit == Init /\ FreshStart

\* the system from its first start on
FreshSpec == FreshInit /\ [][Next]_vars

\* every thread and every worker runs when it can: a started queue_task thread
\* reaches delay, a queued message is taken by a worker, a sleep ends
Worker(j) == j \in DOMAIN jobs /\ JobStep(j)

LiveSpec == Spec /\ \A j \in 1..MaxRequests : WF_vars(Worker(j))

\* GET /v1/transactions/{transaction_id}
GetTransaction(id) ==
    /\ handler = Idle
    /\ lastGet' = get_transaction(id, table, Available)
    /\ UNCHANGED <<table, jobs, responses, handler, pool, now, storeUp, schema>>

\* the system with its query endpoint
GetSpec == Init /\ [][Next \/ \E id \in TxnIds : GetTransaction(id)]_vars

\* process_transaction is a task of the shared queue: a message for any id can
\* be on it
StrayMessage(id) ==
    /\ Inputs < MaxRequests
    /\ jobs' = Append(jobs, [NewJob(id) EXCEPT !.channel = "celery",
                                               !.phase = "queued",
                                               !.stray = TRUE])
    /\ lastGet' = NoGet
    /\ UNCHANGED pool
    /\ UNCHANGED <<table, responses, handler, now, storeUp, schema>>

\* the system with a queue that others write to as well
QueueSpec == Init /\ [][Next \/ \E id \in TxnIds : StrayMessage(id)]_vars

----------------------------------------------------------------------------
(* Several server processes on one database: the requests they serve
   overlap, in their INSERT, their COMMIT, the start of their thread and
   their answer. *)

\* the INSERT of handler h waits: another handler of the pool has inserted a
\* row with this transaction_id and not yet committed it or rolled it back
Blocked(h, id) ==
    \E k \in Handlers \ {h} :
        pool[k].pc = "inserted" /\ pool[k].transaction_id = id

\* what handler h does once its INSERT is answered or waits
Inserted(h, row, r) ==
    IF r.pc = "done"
    THEN /\ responses' = Append(responses,
                [request |-> row.transaction_id, response |-> r.response])
         /\ pool' = [pool EXCEPT ![h] = Idle]
    ELSE /\ responses' = responses
         /\ pool' = [pool EXCEPT ![h] = [transaction_id |-> row.transaction_id,
                                         pc |-> r.pc, row |-> << row >>]]

\* POST /v1/webhooks/transactions with a valid body, taken by the first
\* free process of the pool: the handler builds the row and db.commit()
\* sends the INSERT
PoolReceiveWebhook(h, p) ==
    /\ WebhookRequest(p)
    /\ Inputs < MaxPoolRequests
    /\ pool[h] = Idle
    /\ \A k \in 1..(h - 1) : pool[k] # Idle
    /\ Inserted(h, Transaction(p, now),
                insert(Transaction(p, now), table,
                       Blocked(h, p.transaction_id), Available))
    /\ UNCHANGED <<table, jobs, handler, now, storeUp, schema>>
    /\ lastGet' = NoGet

\* the INSERT of handler h stops waiting: the transaction that blocked it
\* has ended, or the store has stopped answering
PoolInsertResumes(h) ==
    /\ pool[h].pc = "waiting"
    /\ ~Available \/ ~Blocked(h, pool[h].transaction_id)
    /\ Inserted(h, pool[h].row[1],
                insert(pool[h].row[1], table,
                       Blocked(h, pool[h].transaction_id), Available))
    /\ UNCHANGED <<table, jobs, handler, now, storeUp, schema>>
    /\ lastGet' = NoGet

\* db.commit() of handler h sends the COMMIT
PoolCommit(h) ==
    /\ pool[h].pc = "inserted"
    /\ LET r == commit(pool[h].row[1], table, Available) IN
        /\ table' = r.table
        /\ IF r.pc = "done"
           THEN /\ responses' = Append(responses,
                       [request |-> pool[h].transaction_id,
                        response |-> r.response])
                /\ pool' = [pool EXCEPT ![h] = Idle]
           ELSE /\ responses' = responses
                /\ pool' = [pool EXCEPT ![h].pc = r.pc, ![h].row = << >>]
    /\ UNCHANGED <<jobs, handler, now, storeUp, schema>>
    /\ lastGet' = NoGet

\* handler h after the commit: threading.Thread(...).start() starts the
\* thread
PoolThreadStarts(h) ==
    /\ pool[h].pc = "committed"
    /\ LET r == start_thread(pool[h].transaction_id, jobs, TRUE) IN
        /\ jobs' = r.jobs
        /\ pool' = [pool EXCEPT ![h].pc = r.pc]
    /\ UNCHANGED <<table, responses, handler, now, storeUp, schema>>
    /\ lastGet' = NoGet

\* handler h after the commit: Thread.start() raises and the handler answers
\* from its general except clause
PoolThreadStartRaises(h) ==
    /\ pool[h].pc = "committed"
    /\ LET r == start_thread(pool[h].transaction_id, jobs, FALSE) IN
        /\ jobs' = r.jobs
        /\ responses' = Append(responses,
               [request |-> pool[h].transaction_id, response |-> r.response])
        /\ pool' = [pool EXCEPT ![h] = Idle]
    /\ UNCHANGED <<table, handler, now, storeUp, schema>>
    /\ lastGet' = NoGet

\* handler h returns WebhookResponse(message="Webhook received", ...)
PoolRespond(h) ==
    /\ pool[h].pc = "started"
    /\ responses' = Append(responses,
           [request |-> pool[h].transaction_id,
            response |-> Accepted(pool[h].transaction_id)])
    /\ pool' = [pool EXCEPT ![h] = Idle]
    /\ UNCHANGED <<table, jobs, handler, now, storeUp, schema>>
    /\ lastGet' = NoGet

\* the steps of the ingestion by the pool.  The threads the handlers start
\* are left where start() put them: no step of the deferred work inserts or
\* deletes a row, changes a transaction_id or answers a request, which is
\* all a handler reads or writes.
PoolNext ==
    \/ \E h \in Handlers : \E p \in Payloads : PoolReceiveWebhook(h, p)
    \/ \E h \in Handlers : PoolInsertResumes(h)
    \/ \E h \in Handlers : PoolCommit(h)
    \/ \E h \in Handlers : PoolThreadStarts(h)
    \/ \E h \in Handlers : PoolThreadStartRaises(h)
    \/ \E h \in Handlers : PoolRespond(h)
    \/ Tick
    \/ StoreFails
    \/ StoreRecovers

\* the system served by the pool
PoolSpec == Init /\ [][PoolNext]_vars

----------------------------------------------------------------------------
(* What the claims speak of *)

Terminal == {PROCESSED, FAILED}

RowCount(id) == Cardinality(RowsOf(table, id))

JobsOf(id) == {j \in DOMAIN jobs : jobs[j].transaction_id = id}

\* the requests for id that got this response
Answered(id, resp) ==
    {k \in DOMAIN responses :
        responses[k].request = id /\ responses[k].response = resp}

\* a step in which a request is answered, and that answer
Responds == Len(responses') = Len(responses) + 1

Answer == responses'[Len(responses')]

\* a step in which a request with a valid body enters receive_webhook: the
\* handler answers it in the same step (an except clause), or has committed
\* its row and goes on
Arrives ==
    /\ handler = Idle
    /\ \/ handler' # Idle
       \/ Responds /\ Answer.response # ValidationError

\* the id of the request that enters
Arrival == IF handler' # Idle THEN handler'.transaction_id ELSE Answer.request

----------------------------------------------------------------------------
(* C1 *)

\* the handlers of the pool that have committed the record of id and not yet
\* answered
Creating(id) ==
    {h \in Handlers : /\ pool[h].transaction_id = id
                      /\ pool[h].pc \in {"committed", "started"}}

\* the handlers of the pool whose INSERT of id is answered and not committed
Inserting(id) ==
    {h \in Handlers : pool[h].transaction_id = id /\ pool[h].pc = "inserted"}

\* a step in which the INSERT of handler h is answered: one that has waited,
\* or that of a request that arrives at h, the first free process, and is
\* inserted, or is answered with an error at once, so that the handler has
\* answered and h is free again
InsertAnswered(h) ==
    \/ /\ pool[h].pc = "waiting"
       /\ pool'[h] # pool[h]
    \/ /\ pool[h] = Idle
       /\ pool'[h].pc = "inserted"
    \/ /\ pool[h] = Idle
       /\ \A k \in 1..(h - 1) : pool[k] # Idle
       /\ pool' = pool
       /\ Responds

\* the id of the request whose INSERT is answered
InsertedId(h) ==
    IF pool[h].pc = "waiting" THEN pool[h].transaction_id
    ELSE IF pool'[h] # Idle THEN pool'[h].transaction_id
    ELSE Answer.request

\* C1: whatever the interleaving of the concurrent requests carrying one id,
\* served by several processes at once, the store never holds two records of
\* that id: the insert is committed for one request only, and every other
\* request the store answers, whether its INSERT came after that commit or
\* waited for it, takes the duplicate path and leaves the table as it is.
C1_OneRecordPerId ==
    /\ [](\A id \in TxnIds :
            /\ RowCount(id) <= 1
            /\ Cardinality(Creating(id))
                 + Cardinality(Answered(id, Accepted(id))) <= RowCount(id)
            /\ Cardinality(Inserting(id)) + RowCount(id) <= 1
            /\ Answered(id, Duplicate(id)) # {} => RowCount(id) = 1)
    /\ [][/\ Len(table') > Len(table)
             => \E h \in Handlers :
                   /\ pool[h].pc = "inserted"
                   /\ pool'[h].pc = "committed"
                   /\ RowCount(pool[h].transaction_id) = 0
                   /\ table' = Append(table, pool[h].row[1])
          /\ \A h \in Handlers :
                (InsertAnswered(h) /\ Available /\ RowCount(InsertedId(h)) = 1)
                => /\ Responds
                   /\ Answer.request = InsertedId(h)
                   /\ Answer.response = Duplicate(InsertedId(h))
                   /\ table' = table]_vars

\* three requests with one id were in their handlers at once: one has
\* committed the record and not yet answered, one was answered as a
\* duplicate, and the INSERT of the third, sent before that commit, still
\* waits
C1_Witness ==
    \E id \in TxnIds :
        /\ RowCount(id) = 1
        /\ Creating(id) # {}
        /\ Answered(id, Duplicate(id)) # {}
        /\ \E h \in Handlers :
              pool[h].pc = "waiting" /\ pool[h].transaction_id = id

----------------------------------------------------------------------------
(* C2 *)

\* C2: from a first start on, while the store answers, every submission of a
\* valid payload is answered 202 with its id; an id submitted any number of
\* times has one record and one deferred job (a queue message or a fallback
\* task), and the duplicate path starts no work.
C2_IdempotentSubmission ==
    /\ [](\A id \in TxnIds :
            /\ RowCount(id) <= 1
            /\ Answered(id, Accepted(id)) \cup Answered(id, Duplicate(id)) # {}
               => RowCount(id) = 1 /\ Cardinality(JobsOf(id)) = 1)
    /\ [][/\ Arrives /\ Available /\ Responds
             => /\ Answer.response.status_code = HTTP_202_ACCEPTED
                /\ Answer.response.transaction_id = Answer.request
          /\ handler # Idle /\ Responds
             => /\ Answer.response.status_code = HTTP_202_ACCEPTED
                /\ Answer.response.transaction_id = Answer.request
          /\ Responds /\ Answer.response = Duplicate(Answer.request)
             => jobs' = jobs]_vars

----------------------------------------------------------------------------
(* C3 *)

\* C3: no step changes the status of a record whose status is PROCESSED or
\* FAILED: a deferred-processor invocation on a terminal record (a retry, a
\* duplicate delivery, the fallback task) is a no-op.
C3_TerminalIsFinal ==
    [][\A i \in DOMAIN table :
          table[i].status \in Terminal => table'[i].status = table[i].status]_vars

----------------------------------------------------------------------------
(* C4 *)

\* C4: processed_at is set once: after it is non-null no step changes it, so
\* a deferred-processor invocation on a terminal record leaves processed_at
\* (and the status) as they were.
C4_ProcessedAtSetOnce ==
    [][\A i \in DOMAIN table :
          table[i].processed_at # NULL
          => table'[i].processed_at = table[i].processed_at]_vars

----------------------------------------------------------------------------
(* C5 *)

\* C5: in every state and for every record, processed_at is non-null exactly
\* when the status is PROCESSED or FAILED.
C5_ProcessedAtIffTerminal ==
    \A i \in DOMAIN table :
        table[i].processed_at # NULL <=> table[i].status \in Terminal

\* the except block of a job has written its record FAILED with its
\* processed_at while another record is still PROCESSING with none
C5_Witness ==
    \E i, k \in DOMAIN table :
        /\ table[i].status = FAILED /\ table[i].processed_at # NULL
        /\ \E j \in JobsOf(table[i].transaction_id) : jobs[j].phase = "retrying"
        /\ table[k].status = PROCESSING /\ table[k].processed_at = NULL

----------------------------------------------------------------------------
(* C6 *)

\* C6: a record whose status is PROCESSED or FAILED is never PROCESSING again,
\* whatever is submitted (the same id included) and whatever the deferred
\* processor and its retries do.
C6_NeverBackToProcessing ==
    [][\A i \in DOMAIN table :
          table[i].status \in Terminal => table'[i].status \in Terminal]_vars

\* a record is terminal after a retry of its job, and its id was submitted
\* again
C6_Witness ==
    \E i \in DOMAIN table : \E j \in DOMAIN jobs :
        /\ table[i].status \in Terminal
        /\ jobs[j].transaction_id = table[i].transaction_id
        /\ jobs[j].retries > 0
        /\ Answered(table[i].transaction_id, Duplicate(table[i].transaction_id)) # {}

----------------------------------------------------------------------------
(* C7 *)

\* the record of id is stored and its deferred work has just been started
NewlyAccepted(id) ==
    /\ RowCount(id) = 1
    /\ \E j \in JobsOf(id) : jobs[j].phase = "spawned"

IsProcessed(id) ==
    \E i \in RowsOf(table, id) :
        table[i].status = PROCESSED /\ table[i].processed_at # NULL

\* C7: if from the acceptance of a transaction on the store stays available,
\* and threads and workers run, the record eventually is PROCESSED with
\* processed_at set, whether the job went to the queue or enqueueing raised and
\* the fallback task ran.
C7_EventuallyProcessed ==
    \A id \in TxnIds : [](NewlyAccepted(id) /\ []Available => <>IsProcessed(id))

\* one record was processed by a queue worker and another by the fallback task
C7_Witness ==
    \E j, k \in DOMAIN jobs :
        /\ jobs[j].channel = "celery" /\ jobs[j].phase = "succeeded"
        /\ jobs[k].channel = "thread" /\ jobs[k].phase = "succeeded"
        /\ IsProcessed(jobs[j].transaction_id)
        /\ IsProcessed(jobs[k].transaction_id)

----------------------------------------------------------------------------
(* C8 *)

\* C8: a submission whose record the handler has committed is answered with
\* the accepted acknowledgment {message, transaction_id}, whatever the
\* deferred work does meanwhile: no step of the scheduling (the start of the
\* thread, the enqueue succeeding or raising) or of the processors makes the
\* answer another one or changes a response given, so every record created
\* belongs to an id answered with that acknowledgment once the handler is
\* through.
C8_AckWithoutWaiting ==
    /\ [][handler # Idle /\ Responds
          => Answer.response = Accepted(Answer.request)]_vars
    /\ [][\A k \in DOMAIN responses : responses'[k] = responses[k]]_vars
    /\ [](\A j \in DOMAIN jobs :
             \/ handler.transaction_id = jobs[j].transaction_id
             \/ Answered(jobs[j].transaction_id,
                         Accepted(jobs[j].transaction_id)) # {})

\* C8, for a handler whose thread has started: the handler answers with the
\* accepted acknowledgment in its next step, which nothing the deferred work
\* does can disable or change.
C8_AckOnceStarted ==
    [][/\ handler.pc = "started" /\ Responds
          => Answer.response = Accepted(handler.transaction_id)
       /\ handler.pc = "started" /\ handler' = handler
          => ENABLED Respond]_vars

----------------------------------------------------------------------------
(* C9 *)

\* C9: a valid submission that arrives while the store is unavailable is
\* answered 500 in that step, stores no record and starts no deferred job.
C9_StoreDownOnIngestion ==
    [][Arrives /\ ~Available
       => /\ Responds
          /\ Answer.response = ServerError
          /\ Answer.response.status_code = HTTP_500_INTERNAL_SERVER_ERROR
          /\ handler' = Idle
          /\ table' = table
          /\ jobs' = jobs]_vars

\* a submission was answered 500 and its id has neither a record nor a job
C9_Witness ==
    \E k \in DOMAIN responses :
        /\ responses[k].response = ServerError
        /\ RowCount(responses[k].request) = 0
        /\ JobsOf(responses[k].request) = {}

----------------------------------------------------------------------------
(* C10 *)

\* C10: a submission whose id is already stored changes no field of any
\* record, whatever its payload and whatever the record's status; the store
\* answering, it is answered as a duplicate: the status code and the fields of
\* a first submission's answer, the same transaction_id, another message.
C10_DuplicateLeavesRecord ==
    [][Arrives /\ RowsOf(table, Arrival) # {}
       => /\ table' = table
          /\ Responds
          /\ Available
             => /\ Answer.response = Duplicate(Answer.request)
                /\ Answer.response.status_code
                     = Accepted(Answer.request).status_code
                /\ Answer.response.transaction_id
                     = Accepted(Answer.request).transaction_id
                /\ DOMAIN Answer.response = DOMAIN Accepted(Answer.request)
                /\ Answer.response.message
                     # Accepted(Answer.request).message]_vars

\* an id whose record is terminal was submitted again and answered as a
\* duplicate
C10_Witness ==
    \E i \in DOMAIN table :
        /\ table[i].status \in Terminal
        /\ table[i].processed_at # NULL
        /\ Answered(table[i].transaction_id,
                    Duplicate(table[i].transaction_id)) # {}
        /\ Answered(table[i].transaction_id,
                    Accepted(table[i].transaction_id)) # {}

----------------------------------------------------------------------------
(* C11 *)

\* the deferred work of id has not reached its update: its thread is started,
\* its message is queued for the first time, or its processor is in its sleep,
\* has made its session or has found the row and not yet committed
BeforeUpdate(id) ==
    \A j \in JobsOf(id) :
        /\ jobs[j].retries = 0
        /\ jobs[j].phase \in {"spawned", "queued", "sleeping", "opened", "selected"}

\* C11: a get of an id whose submission was answered as accepted, served by
\* the store before the deferred processor's update, answers 200 with the
\* record as it was created: the submitted fields, status PROCESSING and
\* processed_at null.
C11_GetAfterCreate ==
    \A id \in TxnIds :
        (/\ lastGet.request = id
         /\ lastGet.status_code # HTTP_500_INTERNAL_SERVER_ERROR
         /\ Answered(id, Accepted(id)) # {}
         /\ BeforeUpdate(id))
        => /\ lastGet.status_code = HTTP_200_OK
           /\ Len(lastGet.body) = 1
           /\ lastGet.body[1].transaction_id = id
           /\ lastGet.body[1].status = PROCESSING
           /\ lastGet.body[1].processed_at = NULL
           /\ lastGet.body[1] = table[First(table, id)]

\* such a get was served while the processor of the id held its session,
\* between its query and its commit
C11_Witness ==
    \E id \in TxnIds :
        /\ lastGet.request = id
        /\ lastGet.status_code = HTTP_200_OK
        /\ Answered(id, Accepted(id)) # {}
        /\ \E j \in JobsOf(id) : jobs[j].phase = "selected" /\ jobs[j].retries = 0
        /\ lastGet.body[1].status = PROCESSING
        /\ lastGet.body[1].processed_at = NULL

----------------------------------------------------------------------------
(* C12 *)

\* the step in which the processor of job j commits its update and returns
CompletesSuccessfully(j) ==
    jobs[j].phase = "selected" /\ jobs'[j].phase = "succeeded"

\* C12: when an invocation of either processor completes successfully for a
\* stored id, the record is PROCESSED and its processed_at is set and not
\* earlier than its created_at.
C12_SuccessMeansProcessed ==
    [][\A j \in DOMAIN jobs :
          CompletesSuccessfully(j) =>
              LET i == First(table', jobs[j].transaction_id) IN
              /\ i # 0
              /\ table'[i].status = PROCESSED
              /\ table'[i].processed_at # NULL
              /\ table'[i].processed_at >= table'[i].created_at]_vars

----------------------------------------------------------------------------
(* C13 *)

\* a step in which a GET is served
Gets == lastGet' # NoGet

\* C13: a get is answered 404 exactly when the store answers and holds no
\* record of the id at that moment; when it holds one the answer is 200 with
\* that record; and the step of a get changes neither the store nor the
\* deferred work nor what was answered before.
C13_NotFoundIffAbsent ==
    [][Gets =>
          LET id == lastGet'.request IN
          /\ (lastGet'.status_code = HTTP_404_NOT_FOUND)
                <=> (Available /\ RowsOf(table, id) = {})
          /\ (lastGet'.status_code = HTTP_200_OK)
                <=> (Available /\ RowsOf(table, id) # {})
          /\ lastGet'.status_code = HTTP_200_OK
                => lastGet'.body = << table[First(table, id)] >>
          /\ table' = table
          /\ jobs' = jobs
          /\ responses' = responses]_vars

\* a get of an id that has no record was answered 404 while the store holds
\* the record of another id
C13_Witness ==
    /\ lastGet.status_code = HTTP_404_NOT_FOUND
    /\ lastGet.request \in TxnIds
    /\ RowCount(lastGet.request) = 0
    /\ Len(table) = 1

----------------------------------------------------------------------------
(* C14 *)

\* a body with an amount that is not positive or a currency that is not of
\* three characters
Malformed(p) == p.amount <= 0 \/ Len(p.currency) # 3

\* C14: the handler never runs on a malformed body; the step that rejects a
\* body creates no record and starts no deferred work; so every stored record
\* has a positive amount and a currency of three characters.
C14_RejectedBeforeCore ==
    [][/\ \A p \in Payloads : Malformed(p) => ~ENABLED ReceiveWebhook(p)
       /\ (Responds /\ Answer.response = ValidationError)
             => table' = table /\ jobs' = jobs /\ handler' = handler
       /\ \A i \in DOMAIN table' :
             table'[i].amount > 0 /\ Len(table'[i].currency) = 3]_vars

\* a body for one id was rejected and left no record and no job, while the
\* valid body for another id is stored
C14_Witness ==
    \E id \in TxnIds :
        /\ Answered(id, ValidationError) # {}
        /\ RowCount(id) = 0
        /\ JobsOf(id) = {}
        /\ \E other \in TxnIds : /\ Answered(other, Accepted(other)) # {}
                                 /\ RowCount(other) = 1

----------------------------------------------------------------------------
(* C15 *)

\* the step in which the processor of job j is through with handling the
\* exception of its delay or update: the except block of the task has closed
\* its session, the except clause of the fallback has run
HandlesFailure(j) ==
    /\ jobs[j].phase \in {"except", "marking"}
    /\ jobs'[j].phase \in {"retrying", "failed"}

\* C15: whenever a processor, on the queue path or on the fallback path,
\* handles a failure of its delay or update while the store accepts a write,
\* it leaves the record FAILED with processed_at set.
C15_FailureMarksFailed ==
    [][\A j \in DOMAIN jobs :
          (/\ HandlesFailure(j)
           /\ Available
           /\ First(table, jobs[j].transaction_id) # 0)
          => LET i == First(table', jobs[j].transaction_id) IN
             /\ table'[i].status = FAILED
             /\ table'[i].processed_at # NULL]_vars

\* C15, the queue path alone: the except block of process_transaction writes
\* FAILED and processed_at whenever the store accepts the write.
C15_QueuePathMarksFailed ==
    [][\A j \in DOMAIN jobs :
          (/\ jobs[j].channel = "celery"
           /\ HandlesFailure(j)
           /\ Available
           /\ First(table, jobs[j].transaction_id) # 0)
          => LET i == First(table', jobs[j].transaction_id) IN
             /\ table'[i].status = FAILED
             /\ table'[i].processed_at # NULL]_vars

----------------------------------------------------------------------------
(* C16 *)

\* the steps the deferred work of a job can still take, at most: seven per
\* execution of the task (taken from the queue, the session, the query, the
\* commit, the query and the commit of the except block, the retry) and the
\* start of the thread
Remaining(job) ==
    7 * (max_retries - job.retries)
    + (CASE job.phase = "spawned" -> 8
         [] job.phase = "queued" -> 7
         [] job.phase = "sleeping" -> 6
         [] job.phase = "opened" -> 5
         [] job.phase = "selected" -> 4
         [] job.phase = "except" -> 3
         [] job.phase = "marking" -> 2
         [] job.phase = "retrying" -> 1
         [] OTHER -> 0)

\* C16: for one job message process_transaction is executed at most
\* max_retries + 1 = 4 times; request.retries grows only by a retry asked for
\* at the end of the except block of a failed attempt, by one, with the same
\* countdown each time; the failed attempt with retries = max_retries abandons
\* the job; and every step of a job consumes one of its boundedly many
\* remaining steps, whatever the store and the broker do, so that every job
\* stops.
C16_RetriesBounded ==
    [][\A j \in DOMAIN jobs :
          /\ jobs'[j].attempts <= max_retries + 1
          /\ jobs'[j].retries <= max_retries
          /\ jobs'[j].retries # jobs[j].retries
                => /\ jobs[j].channel = "celery"
                   /\ jobs[j].phase = "retrying"
                   /\ jobs'[j].phase = "queued"
                   /\ jobs'[j].retries = jobs[j].retries + 1
                   /\ jobs'[j].countdown = countdown
          /\ (jobs[j].phase = "retrying" /\ jobs'[j] # jobs[j])
                => IF jobs[j].retries = max_retries
                   THEN jobs'[j].phase = "abandoned"
                   ELSE jobs'[j].phase \in {"queued", "rejected"}
          /\ jobs'[j] # jobs[j]
                => /\ Remaining(jobs'[j]) < Remaining(jobs[j])
                   /\ Remaining(jobs'[j]) >= 0]_vars

\* a job was abandoned after its fourth execution, with the store down
C16_Witness ==
    \E j \in DOMAIN jobs :
        /\ jobs[j].phase = "abandoned"
        /\ jobs[j].attempts = max_retries + 1
        /\ jobs[j].retries = max_retries
        /\ ~storeUp

----------------------------------------------------------------------------
(* C17 *)

\* the except block of process_transaction ends for job j
QueueJobHandlesFailure(j) == jobs[j].channel = "celery" /\ HandlesFailure(j)

\* C17: every failed attempt of a queue job either commits FAILED with
\* processed_at (the time its except block read), when the store takes the
\* write, or leaves the record as it was; hence when the job has exhausted its retries the record is FAILED
\* with processed_at set if a FAILED write was the last to commit, and still
\* PROCESSING with processed_at null if none did: it is never PROCESSED.
C17_AbandonedLeavesLastWrite ==
    [][\A j \in DOMAIN jobs :
          LET i == First(table, jobs[j].transaction_id) IN
          /\ (QueueJobHandlesFailure(j) /\ i # 0)
                => IF Available /\ jobs[j].phase = "marking"
                   THEN /\ table'[i].status = FAILED
                        /\ table'[i].processed_at = jobs[j].stamp
                        /\ table'[i].processed_at # NULL
                   ELSE table'[i] = table[i]
          /\ (jobs'[j].phase = "abandoned" /\ i # 0)
                => \/ /\ table'[i].status = FAILED
                      /\ table'[i].processed_at # NULL
                   \/ /\ table'[i].status = PROCESSING
                      /\ table'[i].processed_at = NULL]_vars

\* two jobs have exhausted their retries: the record of one is FAILED, that of
\* the other is still PROCESSING
C17_Witness ==
    \E j, k \in DOMAIN jobs :
        /\ jobs[j].phase = "abandoned" /\ jobs[k].phase = "abandoned"
        /\ LET a == First(table, jobs[j].transaction_id)
               b == First(table, jobs[k].transaction_id) IN
            /\ a # 0 /\ b # 0
            /\ table[a].status = FAILED /\ table[a].processed_at # NULL
            /\ table[b].status = PROCESSING /\ table[b].processed_at = NULL

----------------------------------------------------------------------------
(* C18 *)

\* the work of job j is on the queue and nowhere else
OnQueue(job) == job.channel = "celery" /\ job.phase = "queued" /\ job.attempts = 0

\* the work of job j is the fallback task, entered in the thread of queue_task
InFallback(job) ==
    job.channel = "thread" /\ job.phase = "sleeping" /\ job.attempts = 1

\* C18: every id whose record a request created has deferred work once the
\* handler is past the start of its thread, one thread per created id, and a
\* duplicate submission starts none; that thread ends in exactly one of two
\* ways, the message on the queue or the fallback task running, and adds no
\* other work; the channel, once taken, never changes.  So every created id
\* has one queue message or one fallback task, never both and never neither.
C18_OneChannel ==
    [][/\ \A id \in TxnIds :
             /\ Cardinality(RowsOf(table', id)) <= 1
             /\ ~(handler'.pc = "committed" /\ handler'.transaction_id = id)
                   => Cardinality({j \in DOMAIN jobs' :
                                      jobs'[j].transaction_id = id})
                        = Cardinality(RowsOf(table', id))
       /\ Len(jobs') # Len(jobs)
             => /\ handler.pc = "committed"
                /\ jobs' = Append(jobs, NewJob(handler.transaction_id))
       /\ (Responds /\ Answer.response = Duplicate(Answer.request))
             => jobs' = jobs
       /\ \A j \in DOMAIN jobs :
             /\ (jobs[j].phase = "spawned") <=> (jobs[j].channel = "none")
             /\ (jobs[j].phase = "spawned" /\ jobs'[j] # jobs[j])
                   => /\ OnQueue(jobs'[j]) \/ InFallback(jobs'[j])
                      /\ ~(OnQueue(jobs'[j]) /\ InFallback(jobs'[j]))
             /\ jobs[j].channel # "none"
                   => jobs'[j].channel = jobs[j].channel]_vars

\* C18, for the threads that start: a thread is started only by a handler
\* that has committed its record, at most one per id and none by a duplicate
\* submission; the thread ends with the message on the queue or with the
\* fallback task running, never both, and the channel never changes.
C18_OneChannelPerThread ==
    [][/\ \A id \in TxnIds :
             Cardinality({j \in DOMAIN jobs' : jobs'[j].transaction_id = id})
                <= Cardinality(RowsOf(table', id))
       /\ Len(jobs') # Len(jobs)
             => /\ handler.pc = "committed"
                /\ jobs' = Append(jobs, NewJob(handler.transaction_id))
       /\ (Responds /\ Answer.response = Duplicate(Answer.request))
             => jobs' = jobs
       /\ \A j \in DOMAIN jobs :
             /\ (jobs[j].phase = "spawned" /\ jobs'[j] # jobs[j])
                   => /\ OnQueue(jobs'[j]) \/ InFallback(jobs'[j])
                      /\ ~(OnQueue(jobs'[j]) /\ InFallback(jobs'[j]))
             /\ jobs[j].channel # "none"
                   => jobs'[j].channel = jobs[j].channel]_vars

----------------------------------------------------------------------------
(* C19 *)

\* the database sessions the processor of a job holds open
Held(job) == job.opened - job.closed

\* C19: no processor holds a session before or during its sleep: a session is
\* made only by the step that ends the sleep, or on the way into the except
\* block of the task, after the session of the try block is closed.  At most
\* one is held at a time, from the end of the sleep to the commit or to the
\* end of the error handling; every session made, the one of the FAILED write
\* included, is closed when the invocation has finished, is about to ask for
\* a retry or is abandoned.
C19_NoSessionWhileSleeping ==
    [][\A j \in DOMAIN jobs :
          /\ Held(jobs'[j]) \in {0, 1}
          /\ jobs'[j].phase \in {"spawned", "queued", "sleeping"}
                => Held(jobs'[j]) = 0
          /\ jobs'[j].phase \in {"retrying", "rejected", "abandoned",
                                 "succeeded", "not_found", "failed"}
                => Held(jobs'[j]) = 0
          /\ Held(jobs'[j]) = 1
                => jobs'[j].phase \in {"opened", "selected", "except", "marking"}
          /\ jobs'[j].opened # jobs[j].opened
                => /\ jobs'[j].opened = jobs[j].opened + 1
                   /\ \/ jobs[j].phase = "sleeping" /\ jobs'[j].phase = "opened"
                      \/ /\ jobs[j].channel = "celery"
                         /\ jobs[j].phase \in {"opened", "selected"}
                         /\ jobs'[j].phase = "except"
                         /\ jobs'[j].closed = jobs[j].closed + 1]_vars

\* a queue job sleeps before its second execution: the sessions of its failed
\* update and of its FAILED write are both closed; and a fallback task holds
\* its session while its failed update is handled
C19_Witness ==
    \E j, k \in DOMAIN jobs :
        /\ jobs[j].channel = "celery" /\ jobs[j].phase = "sleeping"
        /\ jobs[j].opened = 2 /\ jobs[j].closed = 2
        /\ jobs[k].channel = "thread" /\ jobs[k].phase = "except"
        /\ Held(jobs[k]) = 1

----------------------------------------------------------------------------
(* C20 *)

\* the columns of a row that are written at creation only
Immutable(row) ==
    [transaction_id |-> row.transaction_id,
     source_account |-> row.source_account,
     destination_account |-> row.destination_account,
     amount |-> row.amount,
     currency |-> row.currency,
     created_at |-> row.created_at]

\* the ids that have a record
StoredIds(db) == {db[i].transaction_id : i \in DOMAIN db}

\* the query of the processor of job j finds no record of its id
FindsNoRecord(j) ==
    /\ jobs[j].phase = "opened"
    /\ Available
    /\ First(table, jobs[j].transaction_id) = 0

\* C20: in every step the stored ids only grow, and grow only by the id of the
\* submission the handler commits in that step; every record keeps the
\* source, destination, amount, currency and created_at it was created with;
\* a processor that finds no record of its id inserts none, stops and is not
\* retried.
C20_OnlyStatusChanges ==
    [][/\ StoredIds(table) \subseteq StoredIds(table')
       /\ Len(table') >= Len(table)
       /\ \A i \in DOMAIN table : Immutable(table'[i]) = Immutable(table[i])
       /\ Len(table') # Len(table)
             => /\ Arrives
                /\ handler'.pc = "committed"
                /\ StoredIds(table') = StoredIds(table) \cup {Arrival}
                /\ Len(table') = Len(table) + 1
       /\ \A j \in DOMAIN jobs :
             /\ (FindsNoRecord(j) /\ jobs'[j] # jobs[j])
                => /\ table' = table
                   /\ jobs'[j].phase = "not_found"
                   /\ jobs'[j].retries = jobs[j].retries
             /\ jobs[j].phase = "not_found" => jobs'[j] = jobs[j]]_vars

\* a processor has run for an id that has no record and left none, while the
\* record of another id was processed with its created fields intact
C20_Witness ==
    \E j, k \in DOMAIN jobs :
        /\ jobs[j].phase = "not_found"
        /\ RowCount(jobs[j].transaction_id) = 0
        /\ jobs[k].phase = "succeeded"
        /\ \E i \in RowsOf(table, jobs[k].transaction_id) :
              /\ table[i].status = PROCESSED
              /\ table[i].processed_at > table[i].created_at
              /\ table[i].amount = 100 /\ table[i].currency = "USD"

----------------------------------------------------------------------------
(* C21 *)

\* C21: every stored record has a non-empty source_account and a non-empty
\* destination_account.
C21_AccountsNonEmpty ==
    \A i \in DOMAIN table :
        table[i].source_account # "" /\ table[i].destination_account # ""

----------------------------------------------------------------------------
(* C22 *)

\* C22: deferred work exists only for an id whose record is committed: every
\* started thread, queue message, running queue job and running fallback task
\* names an id that has a stored record, a thread is started only by the
\* handler that has committed the record of its id in an earlier step, and no
\* processor started by receive_webhook ends in its record-not-found branch.
C22_ScheduledAfterCommit ==
    [][/\ \A j \in DOMAIN jobs' :
             /\ RowsOf(table', jobs'[j].transaction_id) # {}
             /\ jobs'[j].phase # "not_found"
       /\ Len(jobs') # Len(jobs)
             => /\ Len(jobs') = Len(jobs) + 1
                /\ handler.pc = "committed"
                /\ jobs'[Len(jobs')].transaction_id = handler.transaction_id
                /\ RowsOf(table, handler.transaction_id) # {}
                /\ table' = table]_vars

\* a queue job and a fallback task have both found the record of their id
\* and processed it
C22_Witness ==
    \E j, k \in DOMAIN jobs :
        /\ jobs[j].channel = "celery" /\ jobs[j].phase = "succeeded"
        /\ jobs[k].channel = "thread" /\ jobs[k].phase = "succeeded"
        /\ RowCount(jobs[j].transaction_id) = 1
        /\ RowCount(jobs[k].transaction_id) = 1
        /\ jobs[j].transaction_id # jobs[k].transaction_id
====
